---- MODULE Spec2Model ----
(***************************************************************************)
(* Status, configuration and session reporting of the Archon MCP gateway   *)
(* (src/server/api_routes/mcp_api.py).  Strings that the code parses are   *)
(* sequences of one-character strings; an optional value (Python None or   *)
(* an absent key) is the empty sequence and a present value v is <<v>>.    *)
(***************************************************************************)
EXTENDS Integers, Sequences, FiniteSets, TLC

(* ------------------------------ bounds -------------------------------- *)

\* Largest number of trailing "/" characters put on a URL.
MaxSlash == 2

\* Largest uptime (seconds) a probed /health body reports.
MaxUptime == 2

\* Largest age of the container, in half seconds (now - StartedAt).
MaxAge == 3

(* ------------------------- program constants -------------------------- *)

\* aiohttp.ClientTimeout(total=5)
ProbeTimeout == 5

\* "session_timeout": 3600
SessionTimeout == 3600

\* os.getenv("ARCHON_MCP_PORT", "8051")
DefaultPort == <<"8", "0", "5", "1">>

\* credential_service.get_credential("MODEL_CHOICE", "gpt-4o-mini")
DefaultModel == "gpt-4o-mini"

(* ------------------------------ strings ------------------------------- *)

None == <<>>

Some(v) == <<v>>

HTTP == <<"h", "t", "t", "p", ":", "/", "/">>

HTTPS == <<"h", "t", "t", "p", "s", ":", "/", "/">>

RECURSIVE Slashes(_)
Slashes(n) == IF n = 0 THEN <<>> ELSE <<"/">> \o Slashes(n - 1)

\* s[i..] starts with the pattern p
StartsWithAt(s, i, p) ==
    /\ i + Len(p) - 1 <= Len(s)
    /\ \A k \in 1..Len(p) : s[i + k - 1] = p[k]

rstrip_mut_identity(s) == s

\* str.rstrip("/")
RECURSIVE rstrip(_)
rstrip(s) ==
    IF s # <<>> /\ s[Len(s)] = "/" THEN rstrip(SubSeq(s, 1, Len(s) - 1)) ELSE s

\* str.replace(old, ""): every non-overlapping occurrence, left to right
RECURSIVE replace(_, _)
replace(s, old) ==
    IF s = <<>> THEN <<>>
    ELSE IF StartsWithAt(s, 1, old)
         THEN replace(SubSeq(s, Len(old) + 1, Len(s)), old)
         ELSE <<s[1]>> \o replace(SubSeq(s, 2, Len(s)), old)

\* str.split(sep)[0]: the part before the first occurrence of sep
RECURSIVE split0(_, _)
split0(s, sep) ==
    IF s = <<>> \/ s[1] = sep THEN <<>>
    ELSE <<s[1]>> \o split0(SubSeq(s, 2, Len(s)), sep)

Digits == <<"0", "1", "2", "3", "4", "5", "6", "7", "8", "9">>

IsDigit(c) == \E d \in 1..10 : Digits[d] = c

DigitValue(c) == (CHOOSE d \in 1..10 : Digits[d] = c) - 1

\* int(text) succeeds on a non-empty run of decimal digits
IntParses(s) == s # <<>> /\ \A k \in 1..Len(s) : IsDigit(s[k])

RECURSIVE int(_)
int(s) ==
    IF s = <<>> THEN 0
    ELSE 10 * int(SubSeq(s, 1, Len(s) - 1)) + DigitValue(s[Len(s)])

(* --------------------------- environment ------------------------------ *)

Unset == [set |-> FALSE, val |-> <<>>]

EnvVal(s) == [set |-> TRUE, val |-> s]

\* os.getenv(name, default)
getenv(e, default) == IF e.set THEN e.val ELSE default

\* truth value of os.getenv(name): None and "" are false
Truthy(e) == e.set /\ e.val # <<>>

HostNames == {<<"s", "v", "c">>}

PortParts == {<<>>, <<":", "8", "0">>}

PathParts == {<<>>, <<"/", "m">>}

\* http(s)://host, http(s)://host:port, http(s)://host/path, http(s)://host:port/path
PlainUrls ==
    {sc \o h \o po \o pa : sc \in {HTTP, HTTPS}, h \in HostNames,
                           po \in PortParts, pa \in PathParts}

UrlValues ==
    {u \o Slashes(n) : u \in PlainUrls, n \in 0..MaxSlash}
        \cup {Slashes(n) : n \in 0..MaxSlash}

UrlEnvs == {Unset} \cup {EnvVal(u) : u \in UrlValues}

PortEnvs == {Unset, EnvVal(<<"9", "0">>), EnvVal(<<"x">>), EnvVal(<<>>)}

(* --------------------------- status records --------------------------- *)

\* The dictionary returned by the status functions; "" is an absent key.
Rec(st, up, cs, err, msg, info) ==
    [status |-> st, uptime |-> up, container_status |-> cs,
     error |-> err, message |-> msg, service_info |-> info]

NoRec == Rec("", None, "", "", "", None)

NoBody == [kind |-> "none", uptime |-> None]

\* JSON bodies a /health request can carry
Bodies ==
    {[kind |-> "object", uptime |-> u] :
        u \in {None} \cup {Some(n) : n \in 0..MaxUptime}}
        \cup {[kind |-> "array", uptime |-> None],
              [kind |-> "invalid", uptime |-> None]}

ErrorCodes == {404, 503}

NoProbe == [kind |-> "none", code |-> 0, body |-> NoBody]

TimedOut == [kind |-> "timeout", code |-> 0, body |-> NoBody]

\* What the network can answer to the probe before the time bound
ProbeOutcomes ==
    {[kind |-> "response", code |-> 200, body |-> b] : b \in Bodies}
        \cup {[kind |-> "response", code |-> c, body |-> NoBody] : c \in ErrorCodes}
        \cup {[kind |-> "connfail", code |-> 0, body |-> NoBody]}

StatusError(code) ==
    CASE code = 404 -> "MCP service returned status 404"
      [] code = 503 -> "MCP service returned status 503"
      [] OTHER -> "MCP service returned status"

(* ---------------------------- Status Prober --------------------------- *)

\* The guard before the request: mcp_url is the URL without trailing "/"
mcp_url(e) == rstrip(getenv(e, <<>>))

NotConfigured == Rec("error", None, "error", "MCP_SERVER_URL not configured", "", None)

\* Body of the try block: the record returned, or the exception raised
http_try(o) ==
    CASE o.kind = "timeout" -> [exc |-> "TimeoutError", rec |-> NoRec]
      [] o.kind = "connfail" -> [exc |-> "ClientConnectorError", rec |-> NoRec]
      [] OTHER ->
           IF o.code = 200
           THEN CASE o.body.kind = "object" ->
                       [exc |-> "none",
                        rec |-> Rec("running", o.body.uptime, "running", "", "",
                                    Some(o.body))]
                  [] o.body.kind = "array" ->
                       [exc |-> "AttributeError", rec |-> NoRec]
                  [] OTHER -> [exc |-> "JSONDecodeError", rec |-> NoRec]
           ELSE [exc |-> "none",
                 rec |-> Rec("error", None, "error", StatusError(o.code), "", None)]

http_except_mut_no_timeout_clause(exc) ==
    [raised |-> FALSE,
     rec |-> Rec("error", None, "error", "Failed to connect to MCP service", "", None)]

http_except_mut_client_error_only(exc) ==
    IF exc = "TimeoutError"
    THEN [raised |-> FALSE,
          rec |-> Rec("error", None, "timeout",
                      "MCP service timeout - service may be starting", "", None)]
    ELSE IF exc = "ClientConnectorError"
         THEN [raised |-> FALSE,
               rec |-> Rec("error", None, "error",
                           "Failed to connect to MCP service", "", None)]
         ELSE [raised |-> TRUE, rec |-> NoRec]

\* except asyncio.TimeoutError / except Exception
http_except(exc) ==
    IF exc = "TimeoutError"
    THEN [raised |-> FALSE,
          rec |-> Rec("error", None, "timeout",
                      "MCP service timeout - service may be starting", "", None)]
    ELSE [raised |-> FALSE,
          rec |-> Rec("error", None, "error",
                      "Failed to connect to MCP service", "", None)]

\* Result of get_container_status_http once the request has outcome o
http_result(o) ==
    LET t == http_try(o)
    IN  IF t.exc = "none" THEN [raised |-> FALSE, rec |-> t.rec]
        ELSE http_except(t.exc)

(* -------------------------- Container Inspector ----------------------- *)

ContainerStates == {"running", "exited", "paused", "created"}

\* What the local container runtime does during one inspection
DockerWorlds ==
    [import_ok : BOOLEAN, from_env_ok : BOOLEAN,
     get : {"ok", "not_found", "error"}, cstatus : ContainerStates,
     started_ok : BOOLEAN, age : 0..MaxAge, close_raises : BOOLEAN]

NoWorld ==
    [import_ok |-> FALSE, from_env_ok |-> FALSE, get |-> "ok",
     cstatus |-> "created", started_ok |-> FALSE, age |-> 0,
     close_raises |-> FALSE]

\* int((now - started_time).total_seconds()); age is in half seconds
uptime_seconds(w) == IF w.started_ok THEN Some(w.age \div 2) ELSE None

map_status_mut_raw(cs) == cs

\* Map Docker statuses to simple statuses
map_status(cs) == IF cs = "running" THEN "running" ELSE "stopped"

\* Inner try block: from_env, containers.get, the record
docker_try(w) ==
    IF ~w.from_env_ok
    THEN [exc |-> "DockerException", rec |-> NoRec, client |-> FALSE]
    ELSE CASE w.get = "not_found" ->
                [exc |-> "NotFound", rec |-> NoRec, client |-> TRUE]
           [] w.get = "error" ->
                [exc |-> "APIError", rec |-> NoRec, client |-> TRUE]
           [] OTHER ->
                [exc |-> "none",
                 rec |-> Rec(map_status(w.cstatus),
                             IF w.cstatus = "running" THEN uptime_seconds(w) ELSE None,
                             w.cstatus, "", "", None),
                 client |-> TRUE]

\* except NotFound / except Exception
docker_except(exc) ==
    IF exc = "NotFound"
    THEN Rec("not_found", None, "not_found", "",
             "MCP container not found. Run: docker compose up -d archon-mcp", None)
    ELSE Rec("error", None, "error", exc, "", None)

docker_finally_mut_success_only(client, exc, close_raises) ==
    [closes |-> IF client /\ exc = "none" THEN 1 ELSE 0, raised |-> FALSE]

\* finally: close the client when one was acquired, swallowing what close raises
docker_finally(client, exc, close_raises) ==
    [closes |-> IF client THEN 1 ELSE 0, raised |-> FALSE]

NoDocker ==
    Rec("error", None, "no_docker", "Docker not available in this environment", "", None)

get_container_status_docker(w) ==
    IF ~w.import_ok
    THEN [raised |-> FALSE, rec |-> NoDocker, acquired |-> FALSE, closes |-> 0]
    ELSE LET t == docker_try(w)
             f == docker_finally(t.client, t.exc, w.close_raises)
         IN  [raised |-> f.raised,
              rec |-> IF f.raised THEN NoRec
                      ELSE IF t.exc = "none" THEN t.rec ELSE docker_except(t.exc),
              acquired |-> t.client, closes |-> f.closes]

(* ---------------------------- Status Resolver ------------------------- *)

use_http_mut_after_strip(e) == rstrip(getenv(e, <<>>)) # <<>>

use_http_mut_is_not_none(e) == e.set

\* if os.getenv("MCP_SERVER_URL"): probe over HTTP, else inspect the container
use_http(e) == Truthy(e)

(* ---------------------------- Config Reporter ------------------------- *)

\* mcp_server_url.replace("http://", "").replace("https://", "").split(":")[0]
parse_host(url) == split0(replace(replace(url, HTTP), HTTPS), ":")

Models == {"gpt-4o-mini", "gpt-4o"}

\* What the credential service does during one lookup
Lookups ==
    {[kind |-> "returns", value |-> m] : m \in Models}
        \cup {[kind |-> "raises", value |-> ""],
              [kind |-> "import_error", value |-> ""]}

NoLookup == [kind |-> "none", value |-> ""]

lookup_model_choice_mut_unguarded(l) ==
    IF l.kind = "returns" THEN [raised |-> FALSE, value |-> l.value]
    ELSE [raised |-> TRUE, value |-> ""]

\* try: get_credential("MODEL_CHOICE", ...) except Exception: the default
lookup_model_choice(l) ==
    IF l.kind = "returns" THEN [raised |-> FALSE, value |-> l.value]
    ELSE [raised |-> FALSE, value |-> DefaultModel]

NoConfig ==
    [host |-> <<>>, port |-> 0, transport |-> "", proxy_url |-> None,
     deployment |-> "", model_choice |-> ""]

\* The config dictionary before model_choice is added
base_config(url, port) ==
    IF Truthy(url)
    THEN [host |-> parse_host(url.val), port |-> port,
          transport |-> "streamable-http", proxy_url |-> Some(url.val),
          deployment |-> "railway", model_choice |-> ""]
    ELSE [host |-> <<"l", "o", "c", "a", "l", "h", "o", "s", "t">>, port |-> port,
          transport |-> "streamable-http", proxy_url |-> None,
          deployment |-> "docker", model_choice |-> ""]

(* ---------------------------- Session Reporter ------------------------ *)

NoSessions ==
    [active_sessions |-> 0, session_timeout |-> 0, server_uptime_seconds |-> None]

\* JSON bodies the remote /sessions request can carry
SessionBodies ==
    {[active_sessions |-> a, session_timeout |-> SessionTimeout,
      server_uptime_seconds |-> Some(u)] : a \in 0..1, u \in 0..MaxUptime}

NoRemote == [kind |-> "none", code |-> 0, json_ok |-> FALSE, body |-> NoSessions]

\* What the network can answer to GET <url>/sessions
RemoteOutcomes ==
    {[kind |-> "response", code |-> 200, json_ok |-> TRUE, body |-> b] :
        b \in SessionBodies}
        \cup {[kind |-> "response", code |-> 200, json_ok |-> FALSE, body |-> NoSessions]}
        \cup {[kind |-> "response", code |-> c, json_ok |-> FALSE, body |-> NoSessions] :
                c \in ErrorCodes}
        \cup {[kind |-> k, code |-> 0, json_ok |-> FALSE, body |-> NoSessions] :
                k \in {"connfail", "timeout"}}

\* the remote answer is returned as it is
remote_answers(r) == r.kind = "response" /\ r.code = 200 /\ r.json_ok

\* Python truth value of status.get("uptime"): None and 0 are false
uptime_truthy(up) == up # None /\ up[1] # 0

\* Basic session info fallback built from the status record
session_info_of(rec) ==
    [active_sessions |-> 0, session_timeout |-> SessionTimeout,
     server_uptime_seconds |->
        IF rec.status = "running" /\ uptime_truthy(rec.uptime)
        THEN rec.uptime ELSE None]

(* ------------------------------- state -------------------------------- *)

VARIABLES
    MCP_SERVER_URL,     \* environment variable, fixed for the process
    ARCHON_MCP_PORT,    \* environment variable, fixed for the process
    pc,                 \* "idle", "probing" (awaiting the /health answer), "done"
    endpoint,           \* the request being served
    elapsed,            \* seconds the probe has been in flight
    health_gets,        \* GET <mcp_url>/health requests issued by this request
    other_gets,         \* other outbound GET requests issued by this request
    docker_calls,       \* calls of get_container_status_docker by this request
    client_acquired,    \* docker.from_env() returned a client
    close_calls,        \* calls of docker_client.close()
    probe,              \* how the probe ended
    remote,             \* how the remote /sessions request ended
    world,              \* what the container runtime did
    lookup,             \* what the credential service did
    status,             \* the record get_container_status returned
    config,             \* the body of the /api/mcp/config answer
    session_info,       \* the body of the /api/mcp/sessions answer
    http_code           \* the status code of the answer

vars ==
    <<MCP_SERVER_URL, ARCHON_MCP_PORT, pc, endpoint, elapsed, health_gets,
      other_gets, docker_calls, client_acquired, close_calls, probe, remote,
      world, lookup, status, config, session_info, http_code>>

env == <<MCP_SERVER_URL, ARCHON_MCP_PORT>>

Init ==
    /\ MCP_SERVER_URL \in UrlEnvs
    /\ ARCHON_MCP_PORT \in PortEnvs
    /\ pc = "idle"
    /\ endpoint = "none"
    /\ elapsed = 0
    /\ health_gets = 0
    /\ other_gets = 0
    /\ docker_calls = 0
    /\ client_acquired = FALSE
    /\ close_calls = 0
    /\ probe = NoProbe
    /\ remote = NoRemote
    /\ world = NoWorld
    /\ lookup = NoLookup
    /\ status = NoRec
    /\ config = NoConfig
    /\ session_info = NoSessions
    /\ http_code = 0

(* ------------------------------ handlers ------------------------------ *)

\* The handler ends with the result res of get_container_status:
\* get_status returns the record, get_mcp_sessions builds the session info,
\* and an exception becomes HTTPException(500).
Finish(ep, res) ==
    /\ pc' = "done"
    /\ http_code' = IF res.raised THEN 500 ELSE 200
    /\ status' = res.rec
    /\ session_info' = IF ep = "sessions" /\ ~res.raised
                       THEN session_info_of(res.rec) ELSE NoSessions

\* get_container_status, up to its first await
get_container_status(ep) ==
    IF use_http(MCP_SERVER_URL)
    THEN /\ UNCHANGED <<docker_calls, client_acquired, close_calls, world, probe>>
         /\ IF mcp_url(MCP_SERVER_URL) = <<>>
            THEN /\ Finish(ep, [raised |-> FALSE, rec |-> NotConfigured])
                 /\ UNCHANGED <<health_gets, elapsed>>
            ELSE /\ pc' = "probing"
                 /\ elapsed' = 0
                 /\ health_gets' = health_gets + 1
                 /\ UNCHANGED <<status, session_info, http_code>>
    ELSE \E w \in DockerWorlds :
            LET r == get_container_status_docker(w)
            IN  /\ world' = w
                /\ docker_calls' = docker_calls + 1
                /\ client_acquired' = r.acquired
                /\ close_calls' = r.closes
                /\ Finish(ep, [raised |-> r.raised, rec |-> r.rec])
                /\ UNCHANGED <<health_gets, elapsed, probe>>

\* GET /api/mcp/status
get_status ==
    /\ pc = "idle"
    /\ endpoint' = "status"
    /\ get_container_status("status")
    /\ UNCHANGED <<env, other_gets, remote, lookup, config>>

\* GET /api/mcp/sessions: the remote answer when there is one, else the fallback
get_mcp_sessions ==
    /\ pc = "idle"
    /\ endpoint' = "sessions"
    /\ IF Truthy(MCP_SERVER_URL)
       THEN \E r \in RemoteOutcomes :
               /\ remote' = r
               /\ other_gets' = other_gets + 1
               /\ IF remote_answers(r)
                  THEN /\ pc' = "done"
                       /\ http_code' = 200
                       /\ session_info' = r.body
                       /\ UNCHANGED <<status, elapsed, health_gets, docker_calls,
                                      client_acquired, close_calls, world, probe>>
                  ELSE get_container_status("sessions")
       ELSE /\ get_container_status("sessions")
            /\ UNCHANGED <<remote, other_gets>>
    /\ UNCHANGED <<env, lookup, config>>

\* The probe is answered before the time bound
ProbeAnswered ==
    /\ pc = "probing"
    /\ elapsed < ProbeTimeout
    /\ \E o \in ProbeOutcomes :
          /\ probe' = o
          /\ Finish(endpoint, http_result(o))
    /\ UNCHANGED <<env, endpoint, elapsed, health_gets, other_gets, docker_calls,
                   client_acquired, close_calls, remote, world, lookup, config>>

\* A second passes without an answer
Tick ==
    /\ pc = "probing"
    /\ elapsed < ProbeTimeout
    /\ elapsed' = elapsed + 1
    /\ UNCHANGED <<env, pc, endpoint, health_gets, other_gets, docker_calls,
                   client_acquired, close_calls, probe, remote, world, lookup,
                   status, config, session_info, http_code>>

\* ClientTimeout(total=5) expires: asyncio.TimeoutError inside the try block
ProbeTimesOut ==
    /\ pc = "probing"
    /\ elapsed = ProbeTimeout
    /\ probe' = TimedOut
    /\ Finish(endpoint, http_result(TimedOut))
    /\ UNCHANGED <<env, endpoint, elapsed, health_gets, other_gets, docker_calls,
                   client_acquired, close_calls, remote, world, lookup, config>>

\* GET /api/mcp/config
get_mcp_config ==
    /\ pc = "idle"
    /\ endpoint' = "config"
    /\ pc' = "done"
    /\ LET text == getenv(ARCHON_MCP_PORT, DefaultPort)
       IN  IF ~IntParses(text)
           THEN /\ http_code' = 500
                /\ UNCHANGED <<lookup, config>>
           ELSE \E l \in Lookups :
                   LET m == lookup_model_choice(l)
                   IN  /\ lookup' = l
                       /\ http_code' = IF m.raised THEN 500 ELSE 200
                       /\ config' = IF m.raised THEN NoConfig
                                    ELSE [base_config(MCP_SERVER_URL, int(text))
                                            EXCEPT !.model_choice = m.value]
    /\ UNCHANGED <<env, elapsed, health_gets, other_gets, docker_calls,
                   client_acquired, close_calls, probe, remote, world, status,
                   session_info>>

\* The answer is sent; the next request starts from scratch
Return ==
    /\ pc = "done"
    /\ pc' = "idle"
    /\ endpoint' = "none"
    /\ elapsed' = 0
    /\ health_gets' = 0
    /\ other_gets' = 0
    /\ docker_calls' = 0
    /\ client_acquired' = FALSE
    /\ close_calls' = 0
    /\ probe' = NoProbe
    /\ remote' = NoRemote
    /\ world' = NoWorld
    /\ lookup' = NoLookup
    /\ status' = NoRec
    /\ config' = NoConfig
    /\ session_info' = NoSessions
    /\ http_code' = 0
    /\ UNCHANGED env

Next ==
    \/ get_status
    \/ get_mcp_sessions
    \/ get_mcp_config
    \/ ProbeAnswered
    \/ Tick
    \/ ProbeTimesOut
    \/ Return

Spec == Init /\ [][Next]_vars

\* The event loop keeps running: time passes, timers fire, answers are sent
FairSpec ==
    Spec /\ WF_vars(Tick) /\ WF_vars(ProbeTimesOut) /\ WF_vars(Return)

TypeOK ==
    /\ pc \in {"idle", "probing", "done"}
    /\ endpoint \in {"none", "status", "sessions", "config"}
    /\ elapsed \in 0..ProbeTimeout
    /\ http_code \in {0, 200, 500}

(* ------------------------------ properties ---------------------------- *)

\* MCP_SERVER_URL is set to a non-empty string
UrlNonEmpty == MCP_SERVER_URL.set /\ MCP_SERVER_URL.val # <<>>

\* get_container_status was called by the request and the request has ended
Resolved ==
    /\ pc = "done"
    /\ endpoint \in {"status", "sessions"}
    /\ ~remote_answers(remote)

StatusSet == {"running", "stopped", "error", "not_found", "timeout"}

\* C1: with a non-empty MCP_SERVER_URL the container inspector is never
\* invoked and no runtime client is acquired, however the probe ends.
C1_NoInspectorInRemoteMode ==
    UrlNonEmpty => docker_calls = 0 /\ ~client_acquired /\ world = NoWorld

C1_Witness ==
    /\ UrlNonEmpty
    /\ Resolved
    /\ probe.kind = "connfail"
    /\ status.status = "error"

\* C2: with MCP_SERVER_URL unset or empty no outbound request is made and the
\* record returned is the one the container inspector produced.
C2_NoNetworkInLocalMode ==
    ~UrlNonEmpty =>
        /\ health_gets = 0
        /\ other_gets = 0
        /\ pc # "probing"
        /\ Resolved =>
              /\ docker_calls = 1
              /\ probe = NoProbe
              /\ http_code = 200
              /\ status = get_container_status_docker(world).rec

C2_Witness ==
    /\ MCP_SERVER_URL = EnvVal(<<>>)
    /\ Resolved
    /\ docker_calls = 1
    /\ status.status = "running"

\* C3: every record get_container_status returns has a status of the closed
\* set, and a non-null uptime only with status running.
C3_StatusClosedUptimeOnlyRunning ==
    (Resolved /\ http_code = 200) =>
        /\ status.status \in StatusSet
        /\ status.uptime # None => status.status = "running"

C3_Witness ==
    /\ Resolved
    /\ http_code = 200
    /\ world.cstatus = "exited"
    /\ status.status = "stopped"
    /\ status.uptime = None

\* A failure happened inside the probe or the inspection
ProbeFailed ==
    \/ probe.kind \in {"timeout", "connfail"}
    \/ probe.kind = "response" /\ probe.code # 200
    \/ probe.kind = "response" /\ probe.body.kind \in {"array", "invalid"}

InspectionFailed ==
    /\ docker_calls = 1
    /\ \/ ~world.import_ok
       \/ ~world.from_env_ok
       \/ world.get # "ok"

\* C4: every failure of the probe or of the inspection ends in a record with
\* status error or not_found; get_container_status never raises, so the
\* request is never answered 500.
C4_FailuresBecomeRecords ==
    Resolved =>
        /\ http_code = 200
        /\ (ProbeFailed \/ InspectionFailed) =>
              status.status \in {"error", "not_found"}

C4_Witness ==
    /\ Resolved
    /\ endpoint = "status"
    /\ probe.kind = "response"
    /\ probe.code = 200
    /\ probe.body.kind = "array"
    /\ http_code = 200

\* C5: a probe that is not answered within the 5 second bound ends the query,
\* with status error and container_status timeout.
C5_TimeoutReported ==
    /\ [](pc = "done" /\ probe.kind = "timeout" =>
            /\ elapsed = ProbeTimeout
            /\ http_code = 200
            /\ status.status = "error"
            /\ status.container_status = "timeout")
    /\ (pc = "probing" ~> pc = "done")

C5_Witness ==
    /\ pc = "done"
    /\ probe.kind = "timeout"
    /\ elapsed = ProbeTimeout
    /\ status.container_status = "timeout"

\* The port text is a number, so the config request gets as far as the lookup
ConfigAnswered ==
    /\ pc = "done"
    /\ endpoint = "config"
    /\ IntParses(getenv(ARCHON_MCP_PORT, DefaultPort))

\* C6: model_choice is the looked-up value when the lookup succeeds and
\* "gpt-4o-mini" when it raises; a failed lookup never fails the request and
\* leaves the other config fields as they are without it.
C6_ModelChoiceFallback ==
    ConfigAnswered =>
        /\ http_code = 200
        /\ lookup.kind = "returns" => config.model_choice = lookup.value
        /\ lookup.kind \in {"raises", "import_error"} =>
              config.model_choice = "gpt-4o-mini"
        /\ [config EXCEPT !.model_choice = ""] =
              base_config(MCP_SERVER_URL, int(getenv(ARCHON_MCP_PORT, DefaultPort)))

C6_Witness ==
    /\ ConfigAnswered
    /\ lookup.kind = "raises"
    /\ http_code = 200
    /\ config.model_choice = "gpt-4o-mini"
    /\ config.deployment = "railway"

\* C7: a runtime client that was acquired is closed exactly once before the
\* inspector returns, on every exit path, and a failing close leaves the
\* returned record as it is with a close that succeeds.
C7_ClientAlwaysClosed ==
    (pc = "done" /\ docker_calls = 1) =>
        /\ client_acquired = (world.import_ok /\ world.from_env_ok)
        /\ close_calls = IF client_acquired THEN 1 ELSE 0
        /\ (client_acquired /\ world.close_raises) =>
              /\ http_code = 200
              /\ status =
                    get_container_status_docker(
                        [world EXCEPT !.close_raises = FALSE]).rec

C7_Witness ==
    /\ pc = "done"
    /\ docker_calls = 1
    /\ client_acquired
    /\ world.get = "not_found"
    /\ world.close_raises
    /\ close_calls = 1
    /\ status.status = "not_found"

\* C8: for a URL scheme://host, scheme://host:port, scheme://host/path or
\* scheme://host:port/path the host of the config answer is the host component.
C8_HostIsHostComponent ==
    (pc = "done" /\ endpoint = "config" /\ http_code = 200) =>
        \A sc \in {HTTP, HTTPS}, h \in HostNames, po \in PortParts, pa \in PathParts :
            (MCP_SERVER_URL = EnvVal(sc \o h \o po \o pa)) => config.host = h

\* C9: a session answer built by the gateway has zero active sessions and
\* carries server_uptime_seconds exactly when the record has status running
\* and a non-null uptime, an uptime of 0 included.
C9_UptimeWheneverAvailable ==
    (Resolved /\ endpoint = "sessions" /\ http_code = 200) =>
        /\ session_info.active_sessions = 0
        /\ IF status.status = "running" /\ status.uptime # None
           THEN session_info.server_uptime_seconds = status.uptime
           ELSE session_info.server_uptime_seconds = None

\* the URL has a character other than "/"
HasNonSlash(u) == \E k \in 1..Len(u) : u[k] # "/"

\* C10 as stated: with any non-empty MCP_SERVER_URL one call issues exactly
\* one GET to /health and returns the record of that request's outcome.
C10_ExactlyOneProbe ==
    UrlNonEmpty =>
        /\ health_gets <= 1
        /\ Resolved =>
              /\ health_gets = 1
              /\ probe # NoProbe
              /\ status = http_result(probe).rec

\* C10 amended: a non-empty MCP_SERVER_URL with a character other than "/"
\* gets exactly one GET to /health per call, no retry, and the record of that
\* request's outcome; a URL made only of "/" gets no request and the record
\* "MCP_SERVER_URL not configured".
C10_OneProbeUnlessOnlySlashes ==
    UrlNonEmpty =>
        /\ health_gets <= 1
        /\ pc = "probing" => health_gets = 1 /\ HasNonSlash(MCP_SERVER_URL.val)
        /\ Resolved =>
              IF HasNonSlash(MCP_SERVER_URL.val)
              THEN /\ health_gets = 1
                   /\ probe # NoProbe
                   /\ status = http_result(probe).rec
              ELSE /\ health_gets = 0
                   /\ probe = NoProbe
                   /\ status = NotConfigured

C10_Witness ==
    /\ UrlNonEmpty
    /\ HasNonSlash(MCP_SERVER_URL.val)
    /\ MCP_SERVER_URL.val[Len(MCP_SERVER_URL.val)] = "/"
    /\ Resolved
    /\ health_gets = 1
    /\ probe.kind = "connfail"

====
